---------------------------- MODULE Spec2Model ----------------------------
(***************************************************************************)
(* Model of src/src/06_stack.ts: the generic linked Stack<T>.              *)
(*                                                                         *)
(* JavaScript values are modelled by strings: "null" and "undefined" are   *)
(* the two nullish values, "0" is a falsy number, "1" an ordinary number,  *)
(* "true"/"false" the booleans.  Objects live on heaps: `frames` holds the *)
(* StackFrame objects, `arrays` the Array objects built by toArray.  A     *)
(* reference is an index into its heap; the reference 0 stands for the     *)
(* JavaScript value undefined (a field that was never assigned).           *)
(*                                                                         *)
(* Stack instances are numbered 1..Len(size).  For every instance the      *)
(* caller keeps a log of the calls it made, with the argument, the result, *)
(* and `stack.size` as read right after the call returned.                 *)
(***************************************************************************)
EXTENDS Integers, Sequences, FiniteSets, TLC

VARIABLES
    size,     \* size[s]   : Stack.size of instance s
    top,      \* top[s]    : Stack.top of instance s (frame reference, 0 = undefined)
    frames,   \* heap of StackFrame objects, each [value, next]
    arrays,   \* heap of Array objects returned by toArray
    log       \* log[s]    : the calls made on instance s, oldest first

vars == <<size, top, frames, arrays, log>>

-----------------------------------------------------------------------------
(* Bounds of the exploration *)

MaxCalls == 6      \* calls (and external writes) made on one instance
MaxWrites == 1     \* external assignments to stack.size made on one instance
MaxStacks == 2     \* Stack instances constructed (several-instance exploration)
MaxCallsMulti == 4 \* calls made on all instances together (several-instance exploration)

(* JavaScript values *)
JsNull == "null"
JsUndefined == "undefined"
Undef == 0         \* the reference that is undefined

Values == {"null", "undefined", "0", "1"}   \* element values passed to push
ExtSizes == {-1, 0, 2}                        \* numbers an outside caller assigns to size

-----------------------------------------------------------------------------
(* Language operators used by the methods *)

\* a ?? b
Coalesce(a, b) == IF a \in {JsNull, JsUndefined} THEN b ELSE a

\* ref?.value
OptValue(ref) == IF ref = Undef THEN JsUndefined ELSE frames[ref].value

\* truthiness of an object reference: while (currentVal)
Truthy(ref) == ref # Undef

\* Boolean to JavaScript boolean
JsBool(b) == IF b THEN "true" ELSE "false"

-----------------------------------------------------------------------------
(* class StackFrame *)

\* a constructor that forgets this.next = next
StackFrameUnlinked(value, next) == [value |-> value, next |-> Undef]

\* constructor(value, next): this.value = value; this.next = next
StackFrame(value, next) == [value |-> value, next |-> next]

-----------------------------------------------------------------------------
(* class Stack: the values the methods compute *)

\* the test written as this.size < 0
isEmptyNegative(s) == size[s] < 0

\* isEmpty(): this.size === 0
isEmpty(s) == size[s] = 0

\* a push that forgets this.size++
sizeNotIncremented(n) == n

\* this.size++
sizePlusPlus(n) == n + 1

\* a pop that forgets this.size--
sizeNotDecremented(n) == n

\* this.size--
sizeMinusMinus(n) == n - 1

\* a pop that leaves this.top on the old frame
popNextStuck(oldTop) == oldTop

\* oldTop.next, the new top after pop()
popNext(oldTop) == frames[oldTop].next

\* a pop that normalises its result the way peek does
popValueCoalesced(oldTop) == Coalesce(frames[oldTop].value, JsNull)

\* oldTop.value, the result of pop()
popValue(oldTop) == frames[oldTop].value

\* peek(): this.top?.value ?? null
peekResult(s) == Coalesce(OptValue(top[s]), JsNull)

\* toArray(): the loop from currentVal, appending to toReturn.
\* `fuel` bounds the unrolling; a chain longer than the heap is a cycle, on
\* which the loop of the source does not terminate.
RECURSIVE toArrayLoop(_, _, _)
toArrayLoop(currentVal, toReturn, fuel) ==
    IF ~Truthy(currentVal) \/ fuel = 0
    THEN toReturn
    ELSE toArrayLoop(frames[currentVal].next,
                     Append(toReturn, frames[currentVal].value),
                     fuel - 1)

toArrayResult(s) == toArrayLoop(top[s], <<>>, Len(frames))

-----------------------------------------------------------------------------
(* The caller's log *)

\* op: the method; arg: the value pushed; ret: the value returned; ref: the
\* Array returned by toArray; thrown: the call ended in a TypeError; hit: the
\* call found a top frame (pop unlinked one, peek read one); sz: stack.size
\* read after the call.
Call(op, arg, ret, ref, thrown, hit, sz) ==
    [op |-> op, arg |-> arg, ret |-> ret, ref |-> ref,
     thrown |-> thrown, hit |-> hit, size |-> sz]

Logged(s, c) == log' = [log EXCEPT ![s] = Append(@, c)]

Stacks == DOMAIN size

Budget(s) == Len(log[s]) < MaxCalls

-----------------------------------------------------------------------------
(* State after `new Stack()`: the constructor sets size; top is never      *)
(* assigned and reads as undefined.                                        *)

Init ==
    /\ size = <<0>>
    /\ top = <<Undef>>
    /\ frames = <<>>
    /\ arrays = <<>>
    /\ log = << <<>> >>

-----------------------------------------------------------------------------
(* Methods of Stack *)

\* a push whose top is one field shared by all instances (a static field)
PushSharedTop(s, value) ==
    /\ Budget(s)
    /\ frames' = Append(frames, StackFrame(value, top[1]))
    /\ top' = [top EXCEPT ![s] = Len(frames) + 1]
    /\ size' = [size EXCEPT ![s] = sizePlusPlus(@)]
    /\ Logged(s, Call("push", value, JsUndefined, Undef, FALSE, TRUE, size'[s]))
    /\ UNCHANGED arrays

\* push(value): this.top = new StackFrame(value, this.top); this.size++
Push(s, value) ==
    /\ Budget(s)
    /\ frames' = Append(frames, StackFrame(value, top[s]))
    /\ top' = [top EXCEPT ![s] = Len(frames) + 1]
    /\ size' = [size EXCEPT ![s] = sizePlusPlus(@)]
    /\ Logged(s, Call("push", value, JsUndefined, Undef, FALSE, TRUE, size'[s]))
    /\ UNCHANGED arrays

\* pop(): early return of null when isEmpty(); otherwise unlink the top
\* frame.  Reading oldTop.next of an undefined oldTop throws a TypeError
\* before any assignment is made.
Pop(s) ==
    /\ Budget(s)
    /\ IF isEmpty(s)
       THEN /\ Logged(s, Call("pop", JsUndefined, JsNull, Undef, FALSE, FALSE, size[s]))
            /\ UNCHANGED <<size, top>>
       ELSE IF top[s] = Undef
       THEN /\ Logged(s, Call("pop", JsUndefined, JsUndefined, Undef, TRUE, FALSE, size[s]))
            /\ UNCHANGED <<size, top>>
       ELSE LET oldTop == top[s] IN
            /\ top' = [top EXCEPT ![s] = popNext(oldTop)]
            /\ size' = [size EXCEPT ![s] = sizeMinusMinus(@)]
            /\ Logged(s, Call("pop", JsUndefined, popValue(oldTop), Undef,
                              FALSE, TRUE, size'[s]))
    /\ UNCHANGED <<frames, arrays>>

\* peek()
Peek(s) ==
    /\ Budget(s)
    /\ Logged(s, Call("peek", JsUndefined, peekResult(s), Undef, FALSE,
                      top[s] # Undef, size[s]))
    /\ UNCHANGED <<size, top, frames, arrays>>

\* isEmpty() called from outside
IsEmpty(s) ==
    /\ Budget(s)
    /\ Logged(s, Call("isEmpty", JsUndefined, JsBool(isEmpty(s)), Undef, FALSE,
                      TRUE, size[s]))
    /\ UNCHANGED <<size, top, frames, arrays>>

\* a traversal that walks this.top itself instead of a local variable
ToArrayDestructive(s) ==
    /\ Budget(s)
    /\ arrays' = Append(arrays, toArrayResult(s))
    /\ top' = [top EXCEPT ![s] = Undef]
    /\ Logged(s, Call("toArray", JsUndefined, JsUndefined, Len(arrays) + 1, FALSE,
                      TRUE, size[s]))
    /\ UNCHANGED <<size, frames>>

\* toArray(): a new Array object is filled and its reference returned
ToArray(s) ==
    /\ Budget(s)
    /\ arrays' = Append(arrays, toArrayResult(s))
    /\ Logged(s, Call("toArray", JsUndefined, JsUndefined, Len(arrays) + 1, FALSE,
                      TRUE, size[s]))
    /\ UNCHANGED <<size, top, frames>>

\* `size` is a public field: code outside the class can run stack.size = n
Writes(s) == Cardinality({i \in 1..Len(log[s]) : log[s][i].op = "size="})

SetSize(s, n) ==
    /\ Budget(s)
    /\ Writes(s) < MaxWrites
    /\ size' = [size EXCEPT ![s] = n]
    /\ Logged(s, Call("size=", JsUndefined, JsUndefined, Undef, FALSE, TRUE, n))
    /\ UNCHANGED <<top, frames, arrays>>

-----------------------------------------------------------------------------
(* Specifications *)

\* a caller that uses only the methods
Next ==
    \/ \E s \in Stacks : \E value \in Values : Push(s, value)
    \/ \E s \in Stacks : Pop(s)
    \/ \E s \in Stacks : Peek(s)
    \/ \E s \in Stacks : IsEmpty(s)
    \/ \E s \in Stacks : ToArray(s)

Spec == Init /\ [][Next]_vars

\* a caller that also assigns to the public field
NextExt ==
    \/ Next
    \/ \E s \in Stacks : \E n \in ExtSizes : SetSize(s, n)

SpecExt == Init /\ [][NextExt]_vars

\* new Stack(): one more instance, with size 0 and top never assigned
NewStack ==
    /\ Len(size) < MaxStacks
    /\ size' = Append(size, 0)
    /\ top' = Append(top, Undef)
    /\ log' = Append(log, <<>>)
    /\ UNCHANGED <<frames, arrays>>

\* the calls made so far on instances 1..n
RECURSIVE CallsOn(_)
CallsOn(n) == IF n = 0 THEN 0 ELSE Len(log[n]) + CallsOn(n - 1)

TotalCalls == CallsOn(Len(log))

\* a caller that constructs several instances and uses their methods
NextMulti ==
    \/ NewStack
    \/ TotalCalls < MaxCallsMulti /\ Next

SpecMulti == Init /\ [][NextMulti]_vars

-----------------------------------------------------------------------------
(* Observations on the log of instance s *)

\* the step is a call of method op on s (or the write "size=")
Step(s, op) ==
    /\ Len(log'[s]) = Len(log[s]) + 1
    /\ log'[s][Len(log'[s])].op = op

\* the record of the call made by the step
Made(s) == log'[s][Len(log'[s])]

Entries(s, op) == {i \in 1..Len(log[s]) : log[s][i].op = op}

\* stack.size read before call i: the previous reading, or the constructor's 0
SizeBefore(s, i) == IF i = 1 THEN 0 ELSE log[s][i - 1].size

\* the arguments of calls from..to of instance s, last first
RECURSIVE ArgsReversed(_, _, _)
ArgsReversed(s, from, to) ==
    IF to < from THEN <<>>
    ELSE <<log[s][to].arg>> \o ArgsReversed(s, from, to - 1)

\* the frames reachable from ref by next links (n steps at most)
RECURSIVE Reach(_, _)
Reach(ref, n) ==
    IF ref = Undef \/ n = 0 THEN {}
    ELSE {ref} \cup Reach(frames[ref].next, n - 1)

Chain(s) == Reach(top[s], Len(frames))

-----------------------------------------------------------------------------
(* C1: after any interleaving of push and pop calls on a stack that starts *)
(* empty, size equals the number of push calls minus the number of pop     *)
(* calls that removed an element (pops of an empty stack do not count).    *)

PopsThatRemoved(s) == {i \in Entries(s, "pop") : log[s][i].hit}

C1_SizeIsPushesMinusPops ==
    \A s \in Stacks :
        size[s] = Cardinality(Entries(s, "push")) - Cardinality(PopsThatRemoved(s))

C1_Witness ==
    \E s \in Stacks :
        /\ Cardinality(Entries(s, "push")) >= 3
        /\ Cardinality(PopsThatRemoved(s)) >= 1
        /\ \E i \in Entries(s, "pop") : ~log[s][i].hit
        /\ size[s] = 2

-----------------------------------------------------------------------------
(* C2: a toArray call made right after n >= 0 pushes v1..vn on a new stack *)
(* returns [vn, ..., v1].                                                  *)

C2_ToArrayReversesPushes ==
    \A s \in Stacks : \A i \in Entries(s, "toArray") :
        (\A j \in 1..(i - 1) : log[s][j].op = "push")
            => arrays[log[s][i].ref] = ArgsReversed(s, 1, i - 1)

C2_Witness ==
    \E s \in Stacks :
        /\ Len(log[s]) = 4
        /\ \A j \in 1..3 : log[s][j].op = "push"
        /\ <<log[s][1].arg, log[s][2].arg, log[s][3].arg>> = <<"1", "undefined", "0">>
        /\ log[s][4].op = "toArray"
        /\ arrays[log[s][4].ref] = <<"0", "undefined", "1">>

-----------------------------------------------------------------------------
(* C3: the result of pop / peek on a stack that has a top element differs  *)
(* from the result of the same method on an empty stack, whatever the top  *)
(* element is.                                                             *)

C3_EmptyResultIsDistinct ==
    \A s \in Stacks : \A i, j \in 1..Len(log[s]) :
        (/\ log[s][i].op \in {"pop", "peek"}
         /\ log[s][j].op = log[s][i].op
         /\ log[s][i].hit
         /\ ~log[s][j].hit)
            => log[s][i].ret # log[s][j].ret

-----------------------------------------------------------------------------
(* C4: size changes only through push (by +1) and pop (by -1); nothing an  *)
(* outside caller can do sets it to another value.                         *)

C4_SizeOnlyByPushPop ==
    [][\A s \in Stacks :
          size'[s] # size[s]
              => \/ Step(s, "push") /\ size'[s] = size[s] + 1
                 \/ Step(s, "pop") /\ size'[s] = size[s] - 1]_vars

-----------------------------------------------------------------------------
(* C5: in every state reached by calls of the methods, size is the number  *)
(* of frames reachable from top by next links, and size is 0 exactly when  *)
(* top is absent.                                                          *)

C5_SizeIsChainLength ==
    \A s \in Stacks :
        /\ size[s] = Cardinality(Chain(s))
        /\ size[s] = 0 <=> top[s] = Undef

C5_Witness ==
    \E s \in Stacks :
        /\ size[s] = 2
        /\ Cardinality(Chain(s)) = 2
        /\ PopsThatRemoved(s) # {}
        /\ Entries(s, "peek") # {}
        /\ Entries(s, "toArray") # {}

-----------------------------------------------------------------------------
(* C6: a pop called right after push(v) returns v and leaves size at the   *)
(* value it had before the push.                                           *)

C6_PopUndoesPush ==
    \A s \in Stacks : \A i \in 1..(Len(log[s]) - 1) :
        (log[s][i].op = "push" /\ log[s][i + 1].op = "pop")
            => /\ log[s][i + 1].ret = log[s][i].arg
               /\ ~log[s][i + 1].thrown
               /\ log[s][i + 1].size = SizeBefore(s, i)

C6_Witness ==
    \E s \in Stacks : \E i \in 2..(Len(log[s]) - 1) :
        /\ SizeBefore(s, i) = 1
        /\ log[s][i].op = "push"
        /\ log[s][i].arg = "undefined"
        /\ log[s][i + 1].op = "pop"
        /\ log[s][i + 1].ret = "undefined"
        /\ size[s] = 1

-----------------------------------------------------------------------------
(* C7: pop on an empty stack returns null without throwing and leaves the  *)
(* stack as it was: size 0, top absent, still empty; also when repeated.   *)

C7_PopOnEmpty ==
    [][\A s \in Stacks :
          (Step(s, "pop") /\ size[s] = 0 /\ top[s] = Undef)
              => /\ Made(s).ret = JsNull
                 /\ ~Made(s).thrown
                 /\ size'[s] = 0
                 /\ top'[s] = Undef
                 /\ frames' = frames
                 /\ isEmpty(s)']_vars

C7_Witness ==
    \E s \in Stacks : \E i \in 3..(Len(log[s]) - 1) :
        /\ log[s][i].op = "pop" /\ ~log[s][i].hit /\ log[s][i].ret = JsNull
        /\ log[s][i + 1].op = "pop" /\ ~log[s][i + 1].hit /\ log[s][i + 1].ret = JsNull
        /\ log[s][i - 1].op = "pop" /\ log[s][i - 1].hit
        /\ size[s] = 0 /\ top[s] = Undef

-----------------------------------------------------------------------------
(* C8: peek returns the value of the top frame, or null when the stack is  *)
(* empty, and changes neither size nor top nor the frames.                 *)

C8_PeekReturnsTopUnchanged ==
    [][\A s \in Stacks :
          Step(s, "peek")
              => /\ Made(s).ret = IF top[s] = Undef THEN JsNull
                                  ELSE frames[top[s]].value
                 /\ UNCHANGED <<size, top, frames>>]_vars

\* the part of C8 about the state alone
C8_PeekChangesNothing ==
    [][\A s \in Stacks : Step(s, "peek") => UNCHANGED <<size, top, frames>>]_vars

-----------------------------------------------------------------------------
(* C9: toArray changes neither size nor top nor the frames, and no later   *)
(* call changes an Array that toArray has returned.                        *)

C9_ToArraySnapshot ==
    [][/\ \A s \in Stacks :
             Step(s, "toArray") => UNCHANGED <<size, top, frames>>
       /\ \A r \in DOMAIN arrays :
             r \in DOMAIN arrays' /\ arrays'[r] = arrays[r]]_vars

C9_Witness ==
    \E s \in Stacks : \E i \in 2..(Len(log[s]) - 2) :
        /\ log[s][i].op = "toArray"
        /\ log[s][i + 1].op = "push"
        /\ log[s][i + 2].op = "pop"
        /\ Len(arrays[log[s][i].ref]) = 1
        /\ Entries(s, "toArray") = {i, Len(log[s])}
        /\ arrays[log[s][Len(log[s])].ref] # arrays[log[s][i].ref]

-----------------------------------------------------------------------------
(* C10: after n pushes v1..vn on an empty stack, successive pops return    *)
(* vn, ..., v1, each lowering size by one; after the n-th pop the stack is *)
(* empty, and one more pop returns null.                                   *)

\* stack.size read 0 after call i (or no call was made yet: a new stack)
EmptyAfter(s, i) == IF i = 0 THEN TRUE ELSE log[s][i].size = 0

\* calls from+1..from+n of s are all calls of op
Run(s, from, n, op) ==
    /\ from + n <= Len(log[s])
    /\ \A j \in 1..n : log[s][from + j].op = op

\* calls i+1..i+n of s are pushes on an empty stack, calls i+n+1..i+n+k pops
PushesThenPops(s, i, n, k) ==
    /\ EmptyAfter(s, i)
    /\ Run(s, i, n, "push")
    /\ Run(s, i + n, k, "pop")

C10_LifoDrain ==
    \A s \in Stacks : \A i \in 0..Len(log[s]) :
    EmptyAfter(s, i) => \A n \in 0..(Len(log[s]) - i) :
    Run(s, i, n, "push") => \A k \in 0..n :
    Run(s, i + n, k, "pop")
        => /\ \A j \in 1..k :
                /\ log[s][i + n + j].ret = log[s][i + n + 1 - j].arg
                /\ ~log[s][i + n + j].thrown
                /\ log[s][i + n + j].size = n - j
           /\ (k = n /\ Len(log[s]) = i + 2 * n) => isEmpty(s)
           /\ (k = n /\ Len(log[s]) > i + 2 * n) =>
                LET c == log[s][i + 2 * n + 1] IN
                /\ c.op = "isEmpty" => c.ret = "true"
                /\ c.op = "pop" => c.ret = JsNull /\ ~c.thrown /\ c.size = 0

C10_Witness ==
    \E s \in Stacks :
        /\ Len(log[s]) = 6
        /\ PushesThenPops(s, 0, 2, 2)
        /\ log[s][1].arg # log[s][2].arg
        /\ log[s][3].ret = log[s][2].arg
        /\ log[s][4].ret = log[s][1].arg
        /\ log[s][5].op = "pop" /\ log[s][5].ret = JsNull
        /\ log[s][6].op = "isEmpty" /\ log[s][6].ret = "true"

-----------------------------------------------------------------------------
(* C11: in every state reached through the methods of any number of Stack  *)
(* instances, the chain of every stack is acyclic (the loop of toArray     *)
(* ends), no frame is reachable from the top of two stacks, and no frame   *)
(* is the next of two frames.  Frames are those a stack still reaches: a   *)
(* frame unlinked by pop is referenced by nothing and is garbage.          *)

\* the reference reached from ref after n next links (Undef once the chain ends)
RECURSIVE Walk(_, _)
Walk(ref, n) ==
    IF ref = Undef \/ n = 0 THEN ref ELSE Walk(frames[ref].next, n - 1)

Acyclic(s) == Walk(top[s], Len(frames)) = Undef

Live == UNION {Chain(s) : s \in Stacks}

C11_ChainsAcyclicUnshared ==
    /\ \A s \in Stacks : Acyclic(s)
    /\ \A s1, s2 \in Stacks : s1 # s2 => Chain(s1) \cap Chain(s2) = {}
    /\ \A a, b \in Live :
          (a # b /\ frames[a].next # Undef) => frames[a].next # frames[b].next

C11_Witness ==
    /\ Len(size) = 2
    /\ Chain(1) = {1, 3}
    /\ Chain(2) = {2}
    /\ frames[3].next = 1
    /\ Len(log[1]) = 3
    /\ log[1][3].op = "toArray"
    /\ Len(arrays[log[1][3].ref]) = 2

-----------------------------------------------------------------------------
(* C12: peek and pop agree: a pop called right after peek returns what     *)
(* peek returned, for every element value (null and undefined included),   *)
(* and the two calls agree on whether the stack is empty.                  *)

C12_PeekAgreesWithPop ==
    \A s \in Stacks : \A i \in 1..(Len(log[s]) - 1) :
        (log[s][i].op = "peek" /\ log[s][i + 1].op = "pop")
            => /\ log[s][i + 1].ret = log[s][i].ret
               /\ ~log[s][i + 1].thrown
               /\ log[s][i + 1].hit = log[s][i].hit

\* the part of C12 about the two emptiness tests
C12_EmptinessTestsAgree ==
    \A s \in Stacks : \A i \in 1..(Len(log[s]) - 1) :
        (log[s][i].op = "peek" /\ log[s][i + 1].op = "pop")
            => /\ ~log[s][i + 1].thrown
               /\ log[s][i + 1].hit = log[s][i].hit

=============================================================================
